---- MODULE Spec2Model ----
(***************************************************************************)
(* Model of app.py: the Flask request handlers (/webcam, /video_feed,      *)
(* /stream_video, /predict) and the generator generate_video_frames that   *)
(* the streaming handlers hand to the response.  One request is served per *)
(* behaviour.  The generator is modelled statement by statement; the       *)
(* consumer of the generator (the response iteration) pulls, writes the    *)
(* chunk to the client, and closes the generator when the client is gone.  *)
(* SpecTwo serves two streaming requests concurrently, each with its own   *)
(* generator and capture object.                                           *)
(***************************************************************************)
EXTENDS Naturals, Integers, Sequences, FiniteSets, TLC

(* ------------------------------ bounds -------------------------------- *)
\* largest number of frames a capture source delivers in the model
MaxFrames == 3
\* largest number of uploaded files in one /predict request
MaxFiles == 2
\* largest number of next() calls counted on a finished generator
MaxLatePulls == 1
\* frames of a capture source when two requests are served concurrently
FramesTwo == 2

(* ----------------------- program constants ---------------------------- *)
\* thresholds are kept in hundredths: 0.25 -> 25, 0.45 -> 45
DefaultConf == 25
DefaultIou == 45
DefaultCam == 0
\* statements of one loop iteration: read, predict, plot, imencode
LoopSteps == 4
\* remainder of the iteration in progress plus one whole iteration
CancelBound == 2 * LoopSteps

UPLOAD_FOLDER == <<"static", "uploads">>
OUTPUT_FOLDER == <<"static", "outputs">>
VideoExts == {".mp4", ".avi", ".mov", ".mkv"}

BOUNDARY == "--frame\r\n"
PARTHEADER == "Content-Type: image/jpeg\r\n\r\n"
CRLF == "\r\n"

(* --------------------------- value domains ---------------------------- *)
\* a request parameter is <<>> when absent and <<text>> when present
NoArg == <<>>
ThresholdTexts == {"0.5", "abc"}
ThresholdArgs == {NoArg} \cup {<<t>> : t \in ThresholdTexts}
CamArgs == {NoArg, <<"0">>, <<"1">>, <<"x">>}

\* a file name is its stem and its extension (os.path.splitext)
FName(stem, ext) == [stem |-> stem, ext |-> ext]
EmptyName == FName(<<>>, "")
ClipName == FName(<<"clip">>, ".mp4")
CorruptName == FName(<<"corrupt">>, ".mp4")
GoneName == FName(<<"gone">>, ".mp4")
DotDotName == FName(<<"..">>, "")

\* a path is its directory components and its last component
Path(dirs, name) == [dirs |-> dirs, name |-> name]
VideoFileArgs ==
    {NoArg} \cup
    {<<Path(<<>>, EmptyName)>>,
     <<Path(<<>>, ClipName)>>,
     <<Path(<<"", "static", "uploads">>, ClipName)>>,
     <<Path(<<>>, CorruptName)>>,
     <<Path(<<>>, GoneName)>>,
     <<Path(<<"..">>, DotDotName)>>}

\* filenames of uploaded files
CatName == FName(<<"cat">>, ".jpg")
VidName == FName(<<"vid">>, ".MP4")
DocName == FName(<<"doc">>, "")
MovName == FName(<<"film">>, ".mov")
TildeName == FName(<<"~">>, ".mp4")
UploadNames == {EmptyName, CatName, VidName, DocName, MovName, TildeName}

RECURSIVE SeqsUpTo(_, _)
\* the sequences over S of length at most n
SeqsUpTo(S, n) ==
    IF n = 0 THEN {<<>>}
    ELSE LET shorter == SeqsUpTo(S, n - 1)
         IN  shorter \cup {Append(q, x) : q \in shorter, x \in S}

\* strftime("%Y%m%d_%H%M%S_%f") of successive clock readings
TsText == <<"20260101_000000_000001", "20260101_000000_000002",
            "20260101_000000_000003", "20260101_000000_000004",
            "20260101_000000_000005", "20260101_000000_000006",
            "20260101_000000_000007", "20260101_000000_000008">>

\* what float() / int() raise on a malformed text
ValueError == -1

(* --------------------------- pure functions --------------------------- *)
\* float(text): the value in hundredths, or ValueError
ParseFloat(t) ==
    CASE t = "0.5" -> 50
      [] t = "0.25" -> 25
      [] t = "0.45" -> 45
      [] t = "1" -> 100
      [] OTHER -> ValueError

\* int(text): the value, or ValueError
ParseInt(t) ==
    CASE t = "0" -> 0
      [] t = "1" -> 1
      [] OTHER -> ValueError

\* float(request.args.get(name, default))
ArgFloat(arg, default) ==
    IF arg = NoArg THEN default ELSE ParseFloat(arg[1])

\* int(request.args.get('cam', 0))
ArgInt(arg, default) ==
    IF arg = NoArg THEN default ELSE ParseInt(arg[1])

\* str.lower() on an extension
lower(ext) ==
    CASE ext = ".MP4" -> ".mp4"
      [] ext = ".JPG" -> ".jpg"
      [] OTHER -> ext

\* variant: the extension is compared as written
IsVideoName_CaseSensitive(filename) == filename.ext \in VideoExts

\* ext = os.path.splitext(filename)[1].lower(); is_video = ext in [...]
IsVideoName(filename) == lower(filename.ext) \in VideoExts

\* unique_name(prefix, orig_filename) at clock reading k
unique_name(prefix, orig, k) ==
    FName(<<prefix, "_", TsText[k]>>,
          IF orig.ext = "" THEN ".jpg" ELSE orig.ext)

\* os.path.basename: the last component of the path
basename(p) == p.name

\* the text of an extension without its dot
ExtText(ext) ==
    CASE ext = ".mp4" -> "mp4"
      [] ext = ".MP4" -> "MP4"
      [] ext = ".mov" -> "mov"
      [] ext = ".jpg" -> "jpg"
      [] OTHER -> ext

\* werkzeug secure_filename on one component: characters outside
\* [A-Za-z0-9_.-] are dropped, then dots and underscores at the ends are
\* stripped (so "~.mp4" becomes "mp4", a name without extension)
secure_filename(n) ==
    IF n.ext = "" /\ n.stem \in {<<"..">>, <<".">>, <<"~">>} THEN EmptyName
    ELSE IF n.stem = <<"~">> THEN FName(<<ExtText(n.ext)>>, "")
    ELSE n

\* os.path.join(folder, name)
join(folder, n) == Path(folder, n)

\* the JPEG bytes of frame f annotated under thresholds c, i
Jpeg(f, c, i) == [jpeg |-> f, conf |-> c, iou |-> i]

\* variant: the CRLF after the JPEG bytes is left out
Chunk_NoTrailer(f, c, i) ==
    [boundary |-> BOUNDARY, header |-> PARTHEADER,
     body |-> Jpeg(f, c, i), trailer |-> ""]

\* one multipart chunk: boundary, part header, the JPEG bytes, CRLF
Chunk(f, c, i) ==
    [boundary |-> BOUNDARY, header |-> PARTHEADER,
     body |-> Jpeg(f, c, i), trailer |-> CRLF]

(* ------------------------------- state -------------------------------- *)
VARIABLES
    uploads,      \* names of the files in the upload folder
    outputs,      \* names of the files in the output folder
    results,      \* results_data handed to result.html
    clock,        \* datetime.now() readings taken so far
    frameCount,   \* frames the capture source can deliver
    args,         \* the parameters of the request
    status,       \* HTTP status the handler returned (0: no request yet)
    endpoint,     \* the route that served the request
    error,        \* exception that left the handler or the generator
    source,       \* video_source of the generator
    conf, iou,    \* thresholds of the request
    pc,           \* position of the generator
    cap,          \* the cv2.VideoCapture: "none", "open", "released"
    opens,        \* successful opens of a capture source
    releases,     \* calls of cap.release()
    pos,          \* frames delivered by the capture source so far
    frame,        \* frame_bgr of the iteration in progress (0: none)
    reads,        \* calls of cap.read()
    detects,      \* calls of model.predict
    encoded,      \* frames for which cv2.imencode returned ok
    out,          \* chunks yielded so far
    held,         \* chunk the consumer holds and has not yet written
    sent,         \* chunks written to the client
    connected,    \* the client is still connected
    endReason,    \* how the generator ended
    fault,        \* some read, predict, plot or imencode did not succeed
    skipped,      \* frames dropped because imencode returned ok = False
    stepsGone,    \* generator statements run since the client went away
    latePulls,    \* next() calls made on the finished generator
    pipes,        \* two concurrent requests: the generator of each
    handles       \* two concurrent requests: the cv2.VideoCapture objects

vars == <<uploads, outputs, results, clock, frameCount, args, status,
          endpoint, error, source, conf, iou, pc, cap, opens, releases, pos,
          frame, reads, detects, encoded, out, held, sent, connected,
          endReason, fault, skipped, stepsGone, latePulls, pipes, handles>>

reqVars == <<args, status, endpoint, error, source, conf, iou>>
genVars == <<pc, cap, opens, releases, pos, frame, reads, detects, encoded,
             out, endReason, fault, skipped>>
sinkVars == <<held, sent, connected, stepsGone, latePulls>>
envVars == <<uploads, outputs, results, clock, frameCount, pipes, handles>>
reqBase == <<args, status, endpoint, source, conf, iou>>

\* the parameters of a request
Args(confArg, iouArg, camArg, fileArg, files) ==
    [conf |-> confArg, iou |-> iouArg, cam |-> camArg, file |-> fileArg,
     files |-> files]

NoSource == [kind |-> "none", cam |-> 0, path |-> Path(<<>>, EmptyName)]
DeviceSource(idx) == [kind |-> "device", cam |-> idx, path |-> Path(<<>>, EmptyName)]
FileSource(p) == [kind |-> "file", cam |-> 0, path |-> p]

\* os.path.isfile on a path below the upload folder
isfile(p) == p.dirs = UPLOAD_FOLDER /\ p.name \in uploads

\* cap.isOpened() after cv2.VideoCapture(video_source)
isOpened(src) ==
    \/ src.kind = "device" /\ src.cam = 0
    \/ src.kind = "file" /\ isfile(src.path) /\ src.path.name # CorruptName

\* the two concurrent streaming requests
Pipes == {1, 2}

\* a request that has not arrived yet
IdlePipe ==
    [pc |-> "none", src |-> "none", h |-> 0, seen |-> <<>>, out |-> <<>>,
     end |-> "none", connected |-> TRUE]

Init ==
    /\ uploads = {ClipName, CorruptName}
    /\ outputs = {}
    /\ results = <<>>
    /\ clock = 0
    /\ frameCount \in 0..MaxFrames
    /\ args = Args(NoArg, NoArg, NoArg, NoArg, <<>>)
    /\ status = 0
    /\ endpoint = "none"
    /\ error = "none"
    /\ source = NoSource
    /\ conf = 0
    /\ iou = 0
    /\ pc = "none"
    /\ cap = "none"
    /\ opens = 0
    /\ releases = 0
    /\ pos = 0
    /\ frame = 0
    /\ reads = 0
    /\ detects = 0
    /\ encoded = 0
    /\ out = <<>>
    /\ held = <<>>
    /\ sent = <<>>
    /\ connected = TRUE
    /\ endReason = "none"
    /\ fault = FALSE
    /\ skipped = 0
    /\ stepsGone = 0
    /\ latePulls = 0
    /\ pipes = [p \in Pipes |-> IdlePipe]
    /\ handles = <<>>

(* --------------------------- request handlers ------------------------- *)
\* the handler returns a plain response (no generator is built)
Respond(route, code, err) ==
    /\ status' = code
    /\ endpoint' = route
    /\ error' = err
    /\ UNCHANGED <<source, conf, iou>>
    /\ UNCHANGED genVars
    /\ UNCHANGED sinkVars
    /\ UNCHANGED envVars

\* variant: the capture is opened while the response is built
StreamResponse_EagerOpen(route, src, c, i) ==
    /\ status' = 200
    /\ endpoint' = route
    /\ source' = src
    /\ conf' = c
    /\ iou' = i
    /\ pc' = "read"
    /\ cap' = "open"
    /\ opens' = opens + 1
    /\ UNCHANGED <<error, releases, pos, frame, reads, detects,
                   encoded, out, endReason, fault, skipped>>
    /\ UNCHANGED sinkVars
    /\ UNCHANGED envVars

\* Response(generate_video_frames(src, c, i), mimetype=...): the generator
\* object is built, none of its body runs
StreamResponse(route, src, c, i) ==
    /\ status' = 200
    /\ endpoint' = route
    /\ source' = src
    /\ conf' = c
    /\ iou' = i
    /\ pc' = "idle"
    /\ UNCHANGED <<error, cap, opens, releases, pos, frame, reads, detects,
                   encoded, out, endReason, fault, skipped>>
    /\ UNCHANGED sinkVars
    /\ UNCHANGED envVars

webcam_page(confArg, iouArg) ==
    /\ status = 0
    /\ args' = Args(confArg, iouArg, NoArg, NoArg, <<>>)
    /\ LET c == ArgFloat(confArg, DefaultConf)
           i == ArgFloat(iouArg, DefaultIou)
       IN  IF c = ValueError \/ i = ValueError
           THEN Respond("/webcam", 500, "ValueError")
           ELSE /\ status' = 200
                /\ endpoint' = "/webcam"
                /\ conf' = c
                /\ iou' = i
                /\ UNCHANGED <<error, source>>
                /\ UNCHANGED genVars
                /\ UNCHANGED sinkVars
                /\ UNCHANGED envVars

video_feed(confArg, iouArg, camArg) ==
    /\ status = 0
    /\ args' = Args(confArg, iouArg, camArg, NoArg, <<>>)
    /\ LET c == ArgFloat(confArg, DefaultConf)
           i == ArgFloat(iouArg, DefaultIou)
           cam_index == ArgInt(camArg, DefaultCam)
       IN  IF c = ValueError \/ i = ValueError \/ cam_index = ValueError
           THEN Respond("/video_feed", 500, "ValueError")
           ELSE StreamResponse("/video_feed", DeviceSource(cam_index), c, i)

\* the path stream_video builds from its video_file parameter
video_path_of(fileArg) ==
    LET safe_video_file == secure_filename(basename(fileArg[1]))
    IN  join(UPLOAD_FOLDER, safe_video_file)

\* the status stream_video answers with, given the files in `up`
stream_video_status(fileArg, confArg, iouArg, up) ==
    LET c == ArgFloat(confArg, DefaultConf)
        i == ArgFloat(iouArg, DefaultIou)
    IN  IF c = ValueError \/ i = ValueError THEN 500
        ELSE IF fileArg = NoArg \/ fileArg = <<Path(<<>>, EmptyName)>>
        THEN 400
        ELSE IF ~(video_path_of(fileArg).name \in up) THEN 404
        ELSE 200

stream_video(fileArg, confArg, iouArg) ==
    /\ status = 0
    /\ args' = Args(confArg, iouArg, NoArg, fileArg, <<>>)
    /\ LET code == stream_video_status(fileArg, confArg, iouArg, uploads)
       IN  IF code = 500
           THEN Respond("/stream_video", 500, "ValueError")
           ELSE IF code = 200
           THEN StreamResponse("/stream_video",
                               FileSource(video_path_of(fileArg)),
                               ArgFloat(confArg, DefaultConf),
                               ArgFloat(iouArg, DefaultIou))
           ELSE Respond("/stream_video", code, "none")

(* ------------------------------ /predict ------------------------------ *)
\* the record appended to results_data for one upload
ImageRecord(filename, out_path, c, i) ==
    [upload_name |-> filename, path |-> out_path, conf |-> c, iou |-> i,
     detections |-> <<[class_id |-> 0]>>, is_video |-> FALSE]

\* variant: the record refers to the upload's own name, not to in_name
VideoRecord_UsesUploadName(filename, in_path, c, i) ==
    [upload_name |-> filename, path |-> Path(in_path.dirs, filename),
     conf |-> c, iou |-> i, detections |-> <<>>, is_video |-> TRUE]

VideoRecord(filename, in_path, c, i) ==
    [upload_name |-> filename, path |-> in_path, conf |-> c, iou |-> i,
     detections |-> <<>>, is_video |-> TRUE]

\* '/' + path.replace('\\', '/'): the path written from the root
Rooted(p) == Path(<<"">> \o p.dirs, p.name)

\* the state of the loop over the uploaded files
LoopState(up, outp, res, clk, det, err) ==
    [uploads |-> up, outputs |-> outp, results |-> res, clock |-> clk,
     detects |-> det, raised |-> err]

\* variant: the Detector is run on the saved video as well
VideoBranch_Detects(st, filename, in_name, c, i, tick) ==
    LoopState(st.uploads \cup {in_name}, st.outputs,
              Append(st.results,
                     VideoRecord(filename,
                                 Rooted(join(UPLOAD_FOLDER, in_name)), c, i)),
              st.clock + tick, st.detects + 1, FALSE)

\* the else branch: a video is saved and recorded, nothing more
VideoBranch(st, filename, in_name, c, i, tick) ==
    LoopState(st.uploads \cup {in_name}, st.outputs,
              Append(st.results,
                     VideoRecord(filename,
                                 Rooted(join(UPLOAD_FOLDER, in_name)), c, i)),
              st.clock + tick, st.detects, FALSE)

\* the "if not is_video" branch: model.predict, plot, save, record
ImageBranch(st, filename, in_name, c, i, fails, tick) ==
    IF fails
    THEN LoopState(st.uploads \cup {in_name}, st.outputs, st.results,
                   st.clock + tick, st.detects + 1, TRUE)
    ELSE LET out_name == unique_name("out", filename, st.clock + tick + 1)
             out_path == join(OUTPUT_FOLDER, out_name)
         IN  LoopState(st.uploads \cup {in_name},
                       st.outputs \cup {out_name},
                       Append(st.results,
                              ImageRecord(filename, Rooted(out_path), c, i)),
                       st.clock + 2 * tick, st.detects + 1, FALSE)

\* one iteration of "for file in files"; the clock moves on by tick
\* between two readings (0: both readings fall into one clock tick)
PredictOne(st, file, c, i, fails, tick) ==
    IF file = EmptyName THEN st
    ELSE LET filename == secure_filename(file)
             in_name == unique_name("in", filename, st.clock + 1)
         IN  IF IsVideoName(filename)
             THEN VideoBranch(st, filename, in_name, c, i, tick)
             ELSE ImageBranch(st, filename, in_name, c, i, fails, tick)

\* variant: the handler returns from inside the loop, after the first file
PredictLoop_FirstOnly(st, files, k, c, i, failAt, tick) ==
    IF k > Len(files) THEN st
    ELSE PredictOne(st, files[k], c, i, k = failAt, tick)

RECURSIVE PredictLoop(_, _, _, _, _, _, _)
\* the loop over files from index k on; failAt is the upload on which
\* model.predict raises (0: none)
PredictLoop(st, files, k, c, i, failAt, tick) ==
    IF k > Len(files) \/ st.raised THEN st
    ELSE PredictLoop(PredictOne(st, files[k], c, i, k = failAt, tick),
                     files, k + 1, c, i, failAt, tick)

predict(files, confArg, iouArg, failAt, tick) ==
    /\ status = 0
    /\ args' = Args(confArg, iouArg, NoArg, NoArg, files)
    /\ IF files = <<>>
       THEN Respond("/predict", 400, "none")
       ELSE IF \A k \in 1..Len(files) : files[k] = EmptyName
       THEN Respond("/predict", 400, "none")
       ELSE LET c == ArgFloat(confArg, DefaultConf)
                i == ArgFloat(iouArg, DefaultIou)
            IN  IF c = ValueError \/ i = ValueError
                THEN Respond("/predict", 500, "ValueError")
                ELSE LET st == PredictLoop(LoopState(uploads, outputs, <<>>,
                                                     clock, detects, FALSE),
                                           files, 1, c, i, failAt, tick)
                     IN  /\ status' = IF st.raised THEN 500 ELSE 200
                         /\ error' = IF st.raised THEN "Exception" ELSE "none"
                         /\ endpoint' = "/predict"
                         /\ conf' = c
                         /\ iou' = i
                         /\ uploads' = st.uploads
                         /\ outputs' = st.outputs
                         /\ results' = IF st.raised THEN <<>> ELSE st.results
                         /\ clock' = st.clock
                         /\ detects' = st.detects
                         /\ UNCHANGED <<source, frameCount, pipes, handles>>
                         /\ UNCHANGED <<pc, cap, opens, releases, pos, frame,
                                        reads, encoded, out, endReason, fault,
                                        skipped>>
                         /\ UNCHANGED sinkVars

(* ------------------- generate_video_frames (generator) ---------------- *)
\* a generator statement ran: one more statement with no client, if it is gone
Tick == IF connected THEN stepsGone
        ELSE IF stepsGone > CancelBound THEN stepsGone ELSE stepsGone + 1

\* finally: cap.release(); the generator is finished
Finally(reason, err) ==
    /\ cap' = "released"
    /\ releases' = releases + 1
    /\ pc' = "done"
    /\ endReason' = reason
    /\ error' = err

\* variant: the release sits after the loop, an exception skips it
RaiseInLoop_NoFinally ==
    /\ pc' = "done"
    /\ endReason' = "raised"
    /\ error' = "Exception"
    /\ fault' = TRUE
    /\ UNCHANGED <<cap, releases>>

\* an exception raised inside the try block leaves through the finally
RaiseInLoop ==
    /\ Finally("raised", "Exception")
    /\ fault' = TRUE

\* variant: the isOpened check sits inside the try, the finally releases
OpenFails_InsideTry ==
    /\ Finally("openfail", "RuntimeError")
    /\ UNCHANGED opens

\* not cap.isOpened(): raise RuntimeError, before the try is entered
OpenFails ==
    /\ pc' = "done"
    /\ error' = "RuntimeError"
    /\ endReason' = "openfail"
    /\ UNCHANGED <<cap, opens, releases>>

\* first next(): cap = cv2.VideoCapture(video_source); isOpened check
gen_open ==
    /\ pc = "idle"
    /\ IF isOpened(source)
       THEN /\ cap' = "open"
            /\ opens' = opens + 1
            /\ pc' = "read"
            /\ UNCHANGED <<error, endReason, releases>>
       ELSE OpenFails
    /\ UNCHANGED reqBase
    /\ UNCHANGED <<pos, frame, reads, detects, encoded, out, fault, skipped>>
    /\ UNCHANGED sinkVars
    /\ UNCHANGED envVars

\* variant: the source is not advanced, the first frame is read again
ReadFrame_Repeat ==
    /\ pos < frameCount
    /\ pos' = pos + 1
    /\ frame' = 1
    /\ pc' = "predict"
    /\ UNCHANGED <<cap, releases, endReason, error, fault>>

\* ok, frame_bgr = cap.read() delivered the next frame
ReadFrame ==
    /\ pos < frameCount
    /\ pos' = pos + 1
    /\ frame' = pos + 1
    /\ pc' = "predict"
    /\ UNCHANGED <<cap, releases, endReason, error, fault>>

\* ok is False: break, then the finally
ReadNotOk ==
    \/ /\ pos = frameCount
       /\ source.kind = "file"
       /\ Finally("exhausted", "none")
       /\ UNCHANGED fault
    \/ /\ Finally("readfail", "none")
       /\ fault' = TRUE

gen_read ==
    /\ pc = "read"
    /\ reads' = reads + 1
    /\ \/ ReadFrame
       \/ /\ ReadNotOk
          /\ UNCHANGED <<pos, frame>>
       \/ /\ RaiseInLoop
          /\ UNCHANGED <<pos, frame>>
    /\ stepsGone' = Tick
    /\ UNCHANGED <<opens, detects, encoded, out, skipped>>
    /\ UNCHANGED <<held, sent, connected, latePulls>>
    /\ UNCHANGED reqBase
    /\ UNCHANGED envVars

\* results = model.predict(source=frame_bgr, ...); r = results[0]
gen_predict ==
    /\ pc = "predict"
    /\ detects' = detects + 1
    /\ \/ /\ pc' = "plot"
          /\ UNCHANGED <<cap, releases, endReason, error, fault>>
       \/ RaiseInLoop
    /\ stepsGone' = Tick
    /\ UNCHANGED <<opens, pos, frame, reads, encoded, out, skipped>>
    /\ UNCHANGED <<held, sent, connected, latePulls>>
    /\ UNCHANGED reqBase
    /\ UNCHANGED envVars

\* annotated = r.plot()
gen_plot ==
    /\ pc = "plot"
    /\ \/ /\ pc' = "encode"
          /\ UNCHANGED <<cap, releases, endReason, error, fault>>
       \/ RaiseInLoop
    /\ stepsGone' = Tick
    /\ UNCHANGED <<opens, pos, frame, reads, detects, encoded, out, skipped>>
    /\ UNCHANGED <<held, sent, connected, latePulls>>
    /\ UNCHANGED reqBase
    /\ UNCHANGED envVars

\* variant: the chunk is buffered and the loop goes on without yielding
EncodeOk_NoSuspend ==
    /\ encoded' = encoded + 1
    /\ out' = Append(out, Chunk(frame, conf, iou))
    /\ held' = Append(held, Chunk(frame, conf, iou))
    /\ pc' = "read"
    /\ UNCHANGED <<cap, releases, endReason, error, fault, skipped>>

\* imencode returned ok: the chunk is built and yielded, the generator
\* is suspended at the yield with the chunk in the consumer's hands
EncodeOk ==
    /\ encoded' = encoded + 1
    /\ out' = Append(out, Chunk(frame, conf, iou))
    /\ held' = Append(held, Chunk(frame, conf, iou))
    /\ pc' = "suspended"
    /\ UNCHANGED <<cap, releases, endReason, error, fault, skipped>>

\* variant: the ok flag is not tested, the chunk is yielded all the same
EncodeNotOk_Emits ==
    /\ out' = Append(out, Chunk(frame, conf, iou))
    /\ held' = Append(held, Chunk(frame, conf, iou))
    /\ pc' = "suspended"
    /\ fault' = TRUE
    /\ skipped' = skipped + 1
    /\ UNCHANGED encoded
    /\ UNCHANGED <<cap, releases, endReason, error>>

\* imencode returned ok = False: continue with the next read
EncodeNotOk ==
    /\ pc' = "read"
    /\ fault' = TRUE
    /\ skipped' = skipped + 1
    /\ UNCHANGED <<encoded, out, held>>
    /\ UNCHANGED <<cap, releases, endReason, error>>

\* ok, buffer = cv2.imencode('.jpg', annotated) and what follows it
gen_encode ==
    /\ pc = "encode"
    /\ \/ EncodeOk
       \/ EncodeNotOk
       \/ /\ RaiseInLoop
          /\ UNCHANGED <<encoded, out, held, skipped>>
    /\ stepsGone' = Tick
    /\ UNCHANGED <<opens, pos, frame, reads, detects>>
    /\ UNCHANGED <<sent, connected, latePulls>>
    /\ UNCHANGED reqBase
    /\ UNCHANGED envVars

\* next() on the suspended generator: execution continues after the yield
gen_resume ==
    /\ pc = "suspended"
    /\ held = <<>>
    /\ pc' = "read"
    /\ UNCHANGED <<cap, opens, releases, pos, frame, reads, detects, encoded,
                   out, endReason, fault, skipped, error>>
    /\ UNCHANGED sinkVars
    /\ UNCHANGED reqBase
    /\ UNCHANGED envVars

\* variant: GeneratorExit is caught inside the loop, which carries on
CloseAtYield_Swallowed ==
    /\ pc' = "read"
    /\ endReason' = "closed"
    /\ UNCHANGED <<cap, releases, error, fault>>

\* close() on the suspended generator: GeneratorExit is raised at the
\* yield, the finally releases the capture, close() returns normally
CloseAtYield ==
    /\ Finally("closed", error)
    /\ UNCHANGED fault

\* close() on a generator that never started: no statement of the body runs
CloseIdle ==
    /\ pc' = "done"
    /\ endReason' = "closed"
    /\ UNCHANGED <<cap, releases, error, fault>>

gen_close ==
    /\ ~connected
    /\ \/ /\ pc = "suspended"
          /\ CloseAtYield
       \/ /\ pc = "idle"
          /\ CloseIdle
    /\ held' = <<>>
    /\ UNCHANGED <<opens, pos, frame, reads, detects, encoded, out, skipped>>
    /\ UNCHANGED <<sent, connected, stepsGone, latePulls>>
    /\ UNCHANGED reqBase
    /\ UNCHANGED envVars

\* variant: a finished generator starts over when it is pulled again
gen_next_done_Restarts ==
    /\ pc = "done"
    /\ status = 200
    /\ latePulls < MaxLatePulls
    /\ latePulls' = latePulls + 1
    /\ pc' = "idle"
    /\ UNCHANGED <<cap, opens, releases, pos, frame, reads, detects, encoded,
                   out, endReason, fault, skipped, error>>
    /\ UNCHANGED <<held, sent, connected, stepsGone>>
    /\ UNCHANGED reqBase
    /\ UNCHANGED envVars

\* next() on the finished generator: StopIteration, no statement runs
gen_next_done ==
    /\ pc = "done"
    /\ status = 200
    /\ latePulls < MaxLatePulls
    /\ latePulls' = latePulls + 1
    /\ UNCHANGED <<pc, cap, opens, releases, pos, frame, reads, detects,
                   encoded, out, endReason, fault, skipped, error>>
    /\ UNCHANGED <<held, sent, connected, stepsGone>>
    /\ UNCHANGED reqBase
    /\ UNCHANGED envVars

(* --------------------- the consumer of the response ------------------- *)
\* the chunk pulled from the generator is written to the client
WriteChunk ==
    /\ held # <<>>
    /\ connected
    /\ sent' = sent \o held
    /\ held' = <<>>
    /\ UNCHANGED <<connected, stepsGone, latePulls>>
    /\ UNCHANGED genVars
    /\ UNCHANGED reqVars
    /\ UNCHANGED envVars

\* the client goes away while the response is being streamed
Disconnect ==
    /\ status = 200
    /\ pc \notin {"none", "done"}
    /\ connected
    /\ connected' = FALSE
    /\ UNCHANGED <<held, sent, stepsGone, latePulls>>
    /\ UNCHANGED genVars
    /\ UNCHANGED reqVars
    /\ UNCHANGED envVars

Next ==
    \/ /\ status = 0
       /\ \E c \in ThresholdArgs, i \in ThresholdArgs : webcam_page(c, i)
    \/ /\ status = 0
       /\ \E c \in ThresholdArgs, i \in ThresholdArgs, k \in CamArgs :
             video_feed(c, i, k)
    \/ /\ status = 0
       /\ \E f \in VideoFileArgs, c \in ThresholdArgs, i \in ThresholdArgs :
             stream_video(f, c, i)
    \/ /\ status = 0
       /\ \E files \in SeqsUpTo(UploadNames, MaxFiles), c \in ThresholdArgs,
             i \in ThresholdArgs, failAt \in 0..MaxFiles, tick \in 0..1 :
             predict(files, c, i, failAt, tick)
    \/ gen_open
    \/ gen_read
    \/ gen_predict
    \/ gen_plot
    \/ gen_encode
    \/ gen_resume
    \/ gen_close
    \/ gen_next_done
    \/ WriteChunk
    \/ Disconnect

Spec == Init /\ [][Next]_vars

(* ---------------- two streaming requests served concurrently ---------- *)
\* the variables of the single request, untouched here
oneVars == <<uploads, outputs, results, clock, frameCount, args, status,
             endpoint, error, source, conf, iou, pc, cap, opens, releases,
             pos, frame, reads, detects, encoded, out, held, sent, connected,
             endReason, fault, skipped, stepsGone, latePulls>>

\* a capture object just constructed on source src
FreshCapture(src) == [state |-> "open", pos |-> 0, src |-> src]

\* variant: the capture lives in one module-level variable shared by all
\* generators
NewHandle_Shared(hs) == 1

\* cap is a local of the generator: each call constructs its own object
NewHandle(hs) == Len(hs) + 1

\* some other capture object holds the same device open
DeviceBusy(src) ==
    /\ src = "cam0"
    /\ \E k \in DOMAIN handles :
          handles[k].src = src /\ handles[k].state = "open"

\* finally: cap.release() on the generator's own capture
FinallyTwo(p, reason) ==
    /\ pipes' = [pipes EXCEPT ![p].pc = "done", ![p].end = reason]
    /\ handles' = [handles EXCEPT ![pipes[p].h].state = "released"]

\* video_feed / stream_video with default thresholds: the generator is built
two_request(p, src) ==
    /\ pipes[p].pc = "none"
    /\ pipes' = [pipes EXCEPT ![p].pc = "idle", ![p].src = src]
    /\ UNCHANGED handles
    /\ UNCHANGED oneVars

\* first next(): cv2.VideoCapture(video_source), isOpened check
two_open(p) ==
    /\ pipes[p].pc = "idle"
    /\ \/ LET h == NewHandle(handles)
          IN  /\ handles' = IF h \in DOMAIN handles THEN handles
                             ELSE Append(handles, FreshCapture(pipes[p].src))
              /\ pipes' = [pipes EXCEPT ![p].pc = "read", ![p].h = h]
       \/ /\ DeviceBusy(pipes[p].src)
          /\ pipes' = [pipes EXCEPT ![p].pc = "done", ![p].end = "openfail"]
          /\ UNCHANGED handles
    /\ UNCHANGED oneVars

\* ok, frame_bgr = cap.read(); a released capture delivers no frame
two_read(p) ==
    /\ pipes[p].pc = "read"
    /\ LET cur == handles[pipes[p].h]
       IN  \/ /\ cur.state = "open"
              /\ cur.pos < FramesTwo
              /\ handles' = [handles EXCEPT ![pipes[p].h].pos = cur.pos + 1]
              /\ pipes' = [pipes EXCEPT
                              ![p].pc = "predict",
                              ![p].seen = Append(pipes[p].seen, cur.pos + 1)]
           \/ /\ cur.state # "open" \/ cur.pos = FramesTwo
              /\ FinallyTwo(p, IF pipes[p].src = "file" /\ cur.state = "open"
                                THEN "exhausted" ELSE "readfail")
           \/ FinallyTwo(p, "raised")
    /\ UNCHANGED oneVars

\* model.predict on the frame
two_predict(p) ==
    /\ pipes[p].pc = "predict"
    /\ \/ /\ pipes' = [pipes EXCEPT ![p].pc = "plot"]
          /\ UNCHANGED handles
       \/ FinallyTwo(p, "raised")
    /\ UNCHANGED oneVars

\* r.plot()
two_plot(p) ==
    /\ pipes[p].pc = "plot"
    /\ \/ /\ pipes' = [pipes EXCEPT ![p].pc = "encode"]
          /\ UNCHANGED handles
       \/ FinallyTwo(p, "raised")
    /\ UNCHANGED oneVars

\* cv2.imencode, then the yield or the continue
two_encode(p) ==
    /\ pipes[p].pc = "encode"
    /\ \/ /\ pipes' = [pipes EXCEPT
                          ![p].pc = "suspended",
                          ![p].out = Append(pipes[p].out,
                                            pipes[p].seen[Len(pipes[p].seen)])]
          /\ UNCHANGED handles
       \/ /\ pipes' = [pipes EXCEPT ![p].pc = "read"]
          /\ UNCHANGED handles
       \/ FinallyTwo(p, "raised")
    /\ UNCHANGED oneVars

\* the chunk was written, next() resumes the generator after the yield
two_resume(p) ==
    /\ pipes[p].pc = "suspended"
    /\ pipes[p].connected
    /\ pipes' = [pipes EXCEPT ![p].pc = "read"]
    /\ UNCHANGED handles
    /\ UNCHANGED oneVars

\* the client of request p goes away
two_disconnect(p) ==
    /\ pipes[p].pc \notin {"none", "done"}
    /\ pipes[p].connected
    /\ pipes' = [pipes EXCEPT ![p].connected = FALSE]
    /\ UNCHANGED handles
    /\ UNCHANGED oneVars

\* close() of the generator of request p after its client went away
two_close(p) ==
    /\ ~pipes[p].connected
    /\ \/ /\ pipes[p].pc = "suspended"
          /\ FinallyTwo(p, "closed")
       \/ /\ pipes[p].pc = "idle"
          /\ pipes' = [pipes EXCEPT ![p].pc = "done", ![p].end = "closed"]
          /\ UNCHANGED handles
    /\ UNCHANGED oneVars

InitTwo ==
    /\ Init
    /\ frameCount = 0

NextTwo ==
    \/ \E p \in Pipes, src \in {"cam0", "file"} : two_request(p, src)
    \/ \E p \in Pipes : two_open(p)
    \/ \E p \in Pipes : two_read(p)
    \/ \E p \in Pipes : two_predict(p)
    \/ \E p \in Pipes : two_plot(p)
    \/ \E p \in Pipes : two_encode(p)
    \/ \E p \in Pipes : two_resume(p)
    \/ \E p \in Pipes : two_disconnect(p)
    \/ \E p \in Pipes : two_close(p)

SpecTwo == InitTwo /\ [][NextTwo]_vars

(* ------------------------------ properties ---------------------------- *)
\* the frame numbers carried by a sequence of chunks
FramesOf(chunks) == [k \in 1..Len(chunks) |-> chunks[k].body.jpeg]

\* C1: a pipeline whose capture source opened releases it exactly once,
\* however it ends (exhausted, read failure, exception, close): never
\* twice, never before the end, and once the generator is finished
C1_ReleaseExactlyOnce ==
    /\ opens <= 1
    /\ releases <= opens
    /\ (cap = "open") <=> (opens = 1 /\ releases = 0)
    /\ (pc = "done" /\ opens = 1) => (releases = 1 /\ cap = "released")
    /\ (opens = 1 /\ releases = 0) => pc \notin {"done", "idle", "none"}

\* C1 witness: a predict/plot/imencode exception ended a pipeline that had
\* already delivered a chunk, and the capture was released once
C1_Witness ==
    /\ pc = "done"
    /\ endReason = "raised"
    /\ opens = 1
    /\ releases = 1
    /\ Len(sent) >= 1

\* C2: the boundary markers emitted so far are as many as the frames
\* encoded successfully so far; a frame whose encoding failed adds nothing
C2_BoundariesEqualEncoded ==
    /\ Cardinality({k \in DOMAIN out : out[k].boundary = BOUNDARY}) = encoded
    /\ Len(out) = encoded
    /\ encoded + skipped <= pos

\* C2 witness: one frame was skipped, another was encoded and emitted
C2_Witness ==
    /\ skipped >= 1
    /\ encoded >= 1
    /\ Len(out) = encoded

\* C3: a file source of N frames with no failure and a connected client
\* yields the N chunks of frames 1..N in order, then ends without error
\* and with the capture released
C3_FileStreamsAllFrames ==
    (pc = "done" /\ opens = 1 /\ source.kind = "file" /\ ~fault /\ connected)
    => /\ endReason = "exhausted"
       /\ out = [k \in 1..frameCount |-> Chunk(k, conf, iou)]
       /\ sent = out
       /\ held = <<>>
       /\ error = "none"
       /\ releases = 1
       /\ cap = "released"

\* C3 witness: the largest file of the model was streamed to its end
C3_Witness ==
    /\ pc = "done"
    /\ source.kind = "file"
    /\ ~fault
    /\ connected
    /\ frameCount = MaxFrames
    /\ Len(sent) = MaxFrames
    /\ endReason = "exhausted"

\* C4: a frame is read only when every chunk produced before it has been
\* written by the consumer; the consumer never holds more than one chunk;
\* chunks are produced and written in read order
C4_OneInFlight ==
    [][/\ Len(held') <= 1
       /\ (reads' > reads) => (held = <<>> /\ sent = out)
       /\ \A k \in 1..(Len(out') - 1) :
             out'[k].body.jpeg < out'[k + 1].body.jpeg
       /\ \E n \in 0..Len(out') : sent' = SubSeq(out', 1, n)]_vars

\* C4 witness: frame 2 has been read after the chunk of frame 1 was written
C4_Witness ==
    /\ pc = "predict"
    /\ frame = 2
    /\ FramesOf(sent) = <<1>>
    /\ held = <<>>

\* C5: once the consumer has closed the pipeline after a disconnect, the
\* capture is released, no error leaves the generator, and nothing more is
\* read, detected or emitted
C5_CloseStopsPipeline ==
    [][/\ (endReason' = "closed" /\ opens' = 1)
          => /\ pc' = "done"
             /\ releases' = 1
             /\ cap' = "released"
             /\ error' = "none"
             /\ held' = <<>>
       /\ (endReason = "closed")
          => /\ reads' = reads
             /\ detects' = detects
             /\ pos' = pos
             /\ out' = out
             /\ sent' = sent]_vars

\* C5 witness: the client left after 2 of 3 frames were delivered and the
\* pipeline was closed
C5_Witness ==
    /\ endReason = "closed"
    /\ pc = "done"
    /\ frameCount = 3
    /\ Len(sent) = 2
    /\ pos < frameCount
    /\ releases = 1
    /\ ~connected

\* C6 (as claimed): after the client has gone the generator runs at most
\* the rest of the iteration in progress and one more iteration before it
\* is closed
C6_PromptCancel == stepsGone <= CancelBound

\* C7: a capture source that fails to open never gets the loop running:
\* nothing is read, detected or emitted, RuntimeError is raised to the
\* caller of next(), and no capture is released
C7_OpenFailNeverRuns ==
    /\ (status = 200 /\ pc # "none" /\ ~isOpened(source))
       => /\ pc \in {"idle", "done"}
          /\ reads = 0
          /\ detects = 0
          /\ out = <<>>
          /\ sent = <<>>
          /\ opens = 0
          /\ releases = 0
          /\ cap = "none"
    /\ (endReason = "openfail")
       => /\ ~isOpened(source)
          /\ pc = "done"
          /\ error = "RuntimeError"
          /\ releases = 0

\* C7 witness: the first pull on an existing but unreadable file failed
C7_Witness ==
    /\ endReason = "openfail"
    /\ source.kind = "file"
    /\ error = "RuntimeError"

\* C8 (as claimed): the handler returns no successful streaming response
\* for a capture source that fails to open
C8_OpenFailureIsHttpError ==
    (pc # "none" /\ ~isOpened(source)) => status # 200

\* the path /stream_video resolves its video_file parameter to
ResolvedPath(fileArg) == video_path_of(fileArg)

EmptyFileArg(fileArg) ==
    fileArg = NoArg \/ fileArg = <<Path(<<>>, EmptyName)>>

\* C9 (as claimed): /stream_video answers 400 when video_file is absent or
\* empty and 404 when the resolved path is no file, and in both cases
\* builds no pipeline, opens no capture and emits nothing
C9_MissingFileIsClientError ==
    (endpoint = "/stream_video")
    => /\ EmptyFileArg(args.file)
          => (status = 400 /\ pc = "none" /\ opens = 0 /\ out = <<>>)
       /\ (~EmptyFileArg(args.file) /\ ~isfile(ResolvedPath(args.file)))
          => (status = 404 /\ pc = "none" /\ opens = 0 /\ out = <<>>)

Malformed(arg) == arg # NoArg /\ ParseFloat(arg[1]) = ValueError

\* C10 (as claimed): a malformed conf or iou is answered 400 or 404 on
\* every endpoint and acquires nothing; absent values take 0.25 and 0.45
C10_MalformedThresholdIsClientError ==
    /\ (status # 0 /\ (Malformed(args.conf) \/ Malformed(args.iou)))
       => /\ status \in {400, 404}
          /\ pc = "none"
          /\ opens = 0
          /\ uploads = {ClipName, CorruptName}
    /\ (status = 200 /\ args.conf = NoArg) => conf = DefaultConf
    /\ (status = 200 /\ args.iou = NoArg) => iou = DefaultIou

\* C11 (as claimed): a failure of the plot step or of the encode step for
\* one frame never ends the pipeline: from either step the generator goes
\* on (to the encode, to the yield, or back to the next read)
C11_RenderFailureSkipsFrame ==
    [][(pc \in {"plot", "encode"}) => (pc' # "done")]_vars

\* C12: every chunk yielded or written is the boundary line, the part
\* header, the JPEG bytes of one frame that was read, and CRLF; the end of
\* the generator adds nothing to the stream
C12_ChunkFormat ==
    [][/\ \A k \in 1..Len(out') :
             /\ out'[k].boundary = "--frame\r\n"
             /\ out'[k].header = "Content-Type: image/jpeg\r\n\r\n"
             /\ out'[k].trailer = "\r\n"
             /\ \E f \in 1..pos' : out'[k].body = Jpeg(f, conf', iou')
             /\ DOMAIN out'[k] = {"boundary", "header", "body", "trailer"}
       /\ \E n \in 0..Len(out') : sent' = SubSeq(out', 1, n)
       /\ (pc' = "done") => (out' = out /\ Len(sent') <= Len(out))]_vars

\* C12 witness: a stream of two chunks ended and both were written
C12_Witness ==
    /\ pc = "done"
    /\ Len(out) = 2
    /\ sent = out
    /\ endReason = "exhausted"

\* the uploads of the request that have a filename, in upload order
NamedFiles == SelectSeq(args.files, LAMBDA f : f # EmptyName)

\* the sanitized filename ends in a video extension, in any letter case
ExpectVideo(f) ==
    secure_filename(f).ext \in
        {".mp4", ".MP4", ".avi", ".AVI", ".mov", ".MOV", ".mkv", ".MKV"}

ExpectedImages == {k \in 1..Len(NamedFiles) : ~ExpectVideo(NamedFiles[k])}

\* C13: /predict never runs the Detector for a video upload (its record has
\* no detections and is_video = TRUE) and runs it once per image upload
C13_NoDetectorOnVideo ==
    (endpoint = "/predict")
    => /\ detects <= Cardinality(ExpectedImages)
       /\ (status = 200)
          => /\ detects = Cardinality(ExpectedImages)
             /\ \A k \in 1..Len(results) :
                   /\ results[k].is_video => results[k].detections = <<>>
                   /\ (k <= Len(NamedFiles) /\ ExpectVideo(NamedFiles[k]))
                      => (results[k].is_video /\ results[k].detections = <<>>)

\* C13 witness: a video and an image were uploaded, the Detector ran once
C13_Witness ==
    /\ endpoint = "/predict"
    /\ status = 200
    /\ args.files = <<VidName, CatName>>
    /\ detects = 1
    /\ results[1].is_video

\* C14: an upload is recorded as a video exactly when the extension of its
\* sanitized filename is .mp4, .avi, .mov or .mkv in any letter case; all
\* others, also without extension, are recorded as images
C14_VideoByExtension ==
    (endpoint = "/predict" /\ status = 200)
    => \A k \in 1..Len(results) :
          (k <= Len(NamedFiles))
          => (results[k].is_video <=> ExpectVideo(NamedFiles[k]))

\* C14 witness: "vid.MP4" was recorded as a video and "doc" as an image
C14_Witness ==
    /\ endpoint = "/predict"
    /\ status = 200
    /\ args.files = <<VidName, DocName>>
    /\ results[1].is_video
    /\ ~results[2].is_video

\* C15: a successful /predict yields one record per upload with a filename,
\* in upload order, an image record naming a saved output artifact; with no
\* file or only empty filenames the answer is 400, no record, nothing saved
C15_OneRecordPerFile ==
    (endpoint = "/predict")
    => /\ (status = 200)
          => /\ Len(results) = Len(NamedFiles)
             /\ \A k \in 1..Len(results) :
                   /\ results[k].upload_name = secure_filename(NamedFiles[k])
                   /\ ~results[k].is_video
                      => /\ results[k].path.dirs = <<"">> \o OUTPUT_FOLDER
                         /\ results[k].path.name \in outputs
       /\ (NamedFiles = <<>>)
          => /\ status = 400
             /\ results = <<>>
             /\ uploads = {ClipName, CorruptName}
             /\ outputs = {}
       /\ (status # 200) => results = <<>>

\* C15 witness: one .jpg and one video gave an image record, then a video
\* record
C15_Witness ==
    /\ endpoint = "/predict"
    /\ status = 200
    /\ args.files = <<CatName, MovName>>
    /\ Len(results) = 2
    /\ ~results[1].is_video
    /\ results[1].path.name \in outputs
    /\ results[2].is_video

C18_ReadFailureIsFailed ==
    /\ (endReason = "readfail") => (error # "none")
    /\ (endReason = "exhausted") => (error = "none")

\* the generator is inside its loop
Running == pc \in {"read", "predict", "plot", "encode", "suspended"}

\* the steps the claimed state machine allows
ClaimedStep ==
    /\ (pc = "none") => (pc' \in {"none", "idle"})
    /\ (pc = "idle")
       => \/ pc' \in {"idle", "read"}
          \/ pc' = "done" /\ endReason' = "openfail"
    /\ Running
       => \/ Running'
          \/ /\ pc' = "done"
             /\ endReason' \in {"exhausted", "readfail", "raised", "closed"}
    /\ (pc = "done")
       => /\ pc' = "done"
          /\ UNCHANGED <<cap, opens, releases, pos, frame, reads, detects,
                         encoded, out, held, sent, endReason, error>>

\* C19 (as claimed): the pipeline moves only Idle -> Running ->
\* {Draining, Failed, Cancelled} -> Closed, or Idle -> Failed when the open
\* fails, and nothing changes once it is Closed
C19_ClaimedTransitions == [][ClaimedStep]_vars

\* C19 (amended): as claimed, and also Idle -> Cancelled -> Closed when the
\* consumer closes a pipeline it never pulled, with no open and no release
C19_Transitions ==
    [][\/ ClaimedStep
       \/ /\ pc = "idle"
          /\ pc' = "done"
          /\ endReason' = "closed"
          /\ UNCHANGED <<cap, opens, releases, pos, frame, reads, detects,
                         encoded, out, sent, error>>
          /\ opens = 0]_vars

\* C19 witness: a finished pipeline that had emitted chunks was pulled again
C19_Witness ==
    /\ pc = "done"
    /\ latePulls = 1
    /\ Len(out) >= 1
    /\ releases = 1
    /\ cap = "released"

\* C20: the handler answers 200 with the pipeline still Idle and no
\* capture opened; the capture is opened only by the first pull; a pipeline
\* closed without ever being pulled has opened and released nothing
C20_LazyOpen ==
    [][/\ (status = 0 /\ status' = 200 /\ endpoint' # "/predict"
           /\ endpoint' # "/webcam")
          => /\ pc' = "idle"
             /\ cap' = "none"
             /\ opens' = 0
             /\ reads' = 0
       /\ (pc' = "idle")
          => (status' = 200 /\ cap' = "none" /\ opens' = 0 /\ releases' = 0)
       /\ (opens' > opens) => (pc = "idle" /\ status = 200)
       /\ (pc' = "done" /\ endReason' = "closed" /\ reads' = 0)
          => (cap' = "none" /\ opens' = 0 /\ releases' = 0
              /\ out' = <<>>)]_vars

\* C20 witness: the client left before the first pull, the pipeline was
\* closed and never opened its source
C20_Witness ==
    /\ status = 200
    /\ pc = "done"
    /\ endReason = "closed"
    /\ opens = 0
    /\ releases = 0
    /\ isOpened(source)

\* the other of the two requests
Other(p) == 3 - p

\* C17: of two concurrent streaming requests, also on the same device,
\* each generator has a capture object of its own; a step of one request
\* (its end, failure or close included) leaves the other generator and the
\* other capture as they are; a capture is released only by its own
\* generator, and each generator sees the frames of its source in order
\* from the first, with none taken by the other
C17_Independent ==
    [][/\ \A p \in Pipes :
             /\ (pipes'[p].h # 0 /\ pipes'[Other(p)].h # 0)
                => pipes'[p].h # pipes'[Other(p)].h
             /\ (pipes'[p].h # 0)
                => /\ handles'[pipes'[p].h].src = pipes'[p].src
                   /\ (handles'[pipes'[p].h].state = "released")
                      <=> (pipes'[p].pc = "done")
                   /\ pipes'[p].seen =
                         [k \in 1..handles'[pipes'[p].h].pos |-> k]
             /\ (pipes'[p] # pipes[p])
                => /\ pipes'[Other(p)] = pipes[Other(p)]
                   /\ (pipes[Other(p)].h # 0)
                      => handles'[pipes[Other(p)].h]
                            = handles[pipes[Other(p)].h]]_vars

\* C17 witness: two requests on the same device; the first was closed after
\* its client left, the second went on and read all its frames afterwards
C17_Witness ==
    /\ pipes[1].src = "cam0"
    /\ pipes[2].src = "cam0"
    /\ pipes[1].end = "closed"
    /\ pipes[1].out = <<1>>
    /\ pipes[2].pc = "suspended"
    /\ pipes[2].out = <<1, 2>>
    /\ handles[pipes[1].h].state = "released"
    /\ handles[pipes[2].h].state = "open"

====
